---- MODULE Spec2Model ----
(***************************************************************************)
(* Model of the paginated harvest loop of sfpl_2025 (src/library_app.py,   *)
(* lines 186-325): the per-page wait, structured extraction over the CSS   *)
(* item list, the indexed XPath fallback over slots 1..50, the year scan   *)
(* of each item text, the stop on a 2024 item, next-page navigation and    *)
(* the (title, author) projection that follows the loop.                   *)
(*                                                                         *)
(* The listing is the environment.  A page is revealed when the loop       *)
(* fetches it; which Playwright waits time out is the environment's        *)
(* choice at the call that waits.  Reads of a block that is already        *)
(* visible (item.inner_text, loc.inner_text) are taken to return.          *)
(***************************************************************************)
EXTENDS Integers, Sequences, FiniteSets, TLC

(* ---- bounds of the explored listings ---- *)
MaxPages == 2
MaxListed == 2

(* ---- program constants ---- *)
TargetYear == 2025
PriorYear == 2024
SnippetLen == 64
SlotsPerPage == 50

VARIABLES
    pc,                 \* position of the coroutine
    listing,            \* pages revealed so far (listing[p] is page p)
    page_index,         \* page_index
    count,              \* count = await items_locator.count()
    idx,                \* loop variable: i (structured, 0-based) or idx (indexed, 1-based)
    stop_due_to_2024,   \* stop_due_to_2024
    library_books_2025, \* the collected list
    title_text,         \* the local title_text: Unbound until first assigned
    lib_df,             \* the (title, author) projection
    session,            \* the browser opened by "async with async_playwright()"
    error,              \* the exception that left sfpl_2025, "none" if none
    stop_reason,        \* which break ended the while loop
    probed,             \* history: indexed slots probed on the current page
    nav_attempts,       \* history: clicks on the next-page control
    seen_2024,          \* history: a 2024 item has been classified
    norm_pc,            \* _normalize_title: "idle", "call" or "returned"
    norm_s,             \* _normalize_title: the argument s
    norm_t,             \* _normalize_title: the value returned
    merge_pc,           \* merge_ratings_into_library: "idle", "call" or "returned"
    goodreads_books_this_year, \* the reading-log table passed to the merge
    lib_before,         \* history: the rows of lib_df when the merge was called
    merge_path,         \* which return path the merge took
    matched,            \* the count printed by "Ratings matched: .../..."
    fuzzy_calls         \* history: rows of lib_df given to _fuzzy_lookup

\* the variables of the harvest
harvest == <<pc, listing, page_index, count, idx, stop_due_to_2024,
             library_books_2025, title_text, session, error,
             stop_reason, probed, nav_attempts, seen_2024>>

\* the variables of title normalisation and of the ratings merge
norm == <<norm_pc, norm_s, norm_t>>
merge == <<merge_pc, goodreads_books_this_year, lib_before, merge_path,
           matched, fuzzy_calls>>

vars == <<harvest, lib_df, norm, merge>>

(***************************************************************************)
(* Item texts.  A text is a sequence of tokens; each token stands for a    *)
(* run of characters:                                                      *)
(*   "P"   the phrase "checked out on" in any letter case (14 characters)  *)
(*   "Y25" the digits 2025, "Y24" the digits 2024 (4 characters)           *)
(*   "s"   a short run without digits, such as ": Dec 1, " (9 characters)  *)
(*   "L"   a long run without digits (64 characters)                       *)
(*   "m"   a run without digits of 47 characters                           *)
(*   "Idot" the letter U+0130, capital I with dot above: one character of  *)
(*         text, two characters of text.lower()                            *)
(***************************************************************************)
Width(tok) ==
    CASE tok = "P" -> 14
      [] tok = "Y25" -> 4
      [] tok = "Y24" -> 4
      [] tok = "s" -> 9
      [] tok = "L" -> 64
      [] tok = "m" -> 47
      [] tok = "Idot" -> 1

\* the number of characters of tok.lower()
LowerWidth(tok) == IF tok = "Idot" THEN 2 ELSE Width(tok)

RECURSIVE Offset(_, _)
\* character offset at which token j of text starts
Offset(text, j) == IF j = 1 THEN 0 ELSE Offset(text, j - 1) + Width(text[j - 1])

RECURSIVE LowerOffset(_, _)
\* character offset at which token j starts in text.lower()
LowerOffset(text, j) ==
    IF j = 1 THEN 0 ELSE LowerOffset(text, j - 1) + LowerWidth(text[j - 1])

\* "checked out on" in lower
HasPhrase(text) == \E j \in 1..Len(text) : text[j] = "P"

\* lower.index("checked out on"): the first occurrence
PhraseIndex(text) == CHOOSE j \in 1..Len(text) :
                        text[j] = "P" /\ \A h \in 1..(j - 1) : text[h] # "P"

\* tok in text[i : i + 64], i = lower.index("checked out on"): the offset
\* of the phrase in lower, used as an offset in text
InSnippet(text, tok) ==
    LET p == PhraseIndex(text)
        start == LowerOffset(text, p)
    IN \E j \in 1..Len(text) :
          /\ text[j] = tok
          /\ Offset(text, j) >= start
          /\ Offset(text, j) + Width(tok) <= start + SnippetLen

\* the year scan of lines 218-229 and 272-285; 0 stands for None
YearOf(text) ==
    IF HasPhrase(text)
    THEN IF InSnippet(text, "Y25") THEN TargetYear
         ELSE IF InSnippet(text, "Y24") THEN PriorYear
         ELSE 0
    ELSE 0

(***************************************************************************)
(* The listing: pages of item blocks.  An item block has a text and may    *)
(* or may not hold the title and author sub-elements.  A page lists some   *)
(* blocks; a full page holds 50 blocks: the listed ones, then blocks       *)
(* without the phrase.  The pages of one listing list at most MaxListed    *)
(* blocks in all.                                                          *)
(***************************************************************************)
TextIn25 == <<"P", "s", "Y25">>
TextIn24 == <<"P", "s", "Y24">>
TextNoPhrase == <<"s">>
TextBoth == <<"P", "s", "Y24", "s", "Y25">>
TextFar == <<"P", "L", "Y25">>
TextShifted == <<"Idot", "P", "m", "Y25">>

ItemKinds ==
    { [text |-> TextIn25, has_title |-> TRUE, has_author |-> TRUE],
      [text |-> TextIn25, has_title |-> FALSE, has_author |-> FALSE],
      [text |-> TextIn24, has_title |-> TRUE, has_author |-> TRUE],
      [text |-> TextNoPhrase, has_title |-> TRUE, has_author |-> TRUE],
      [text |-> TextBoth, has_title |-> TRUE, has_author |-> TRUE],
      [text |-> TextFar, has_title |-> TRUE, has_author |-> TRUE],
      [text |-> TextShifted, has_title |-> TRUE, has_author |-> TRUE] }

Filler == [text |-> TextNoPhrase, has_title |-> FALSE, has_author |-> FALSE]

ItemSeqs(max) == UNION { [1..n -> ItemKinds] : n \in 0..max }

Pages(budget) == [items : ItemSeqs(budget), full : BOOLEAN]

RECURSIVE Listed(_)
\* the number of blocks listed by the pages of l
Listed(l) == IF l = <<>> THEN 0 ELSE Len(l[1].items) + Listed(Tail(l))

NumItems(page) == IF page.full THEN SlotsPerPage ELSE Len(page.items)

ItemAt(page, i) == IF i <= Len(page.items) THEN page.items[i] ELSE Filler

(* values of the title and author fields *)
Unbound == <<>>
UnknownTitle == <<"(unknown title)">>
UnknownAuthor == <<"(unknown author)">>
TitleOf(p, i) == <<"title", p, i>>
AuthorOf(p, i) == <<"author", p, i>>

\* no call of _normalize_title is being followed
NormIdle ==
    /\ norm_pc = "idle"
    /\ norm_s = <<>>
    /\ norm_t = <<>>

\* no call of merge_ratings_into_library is being followed
MergeIdle ==
    /\ merge_pc = "idle"
    /\ goodreads_books_this_year = <<>>
    /\ lib_before = <<>>
    /\ merge_path = "none"
    /\ matched = 0
    /\ fuzzy_calls = {}

Init ==
    /\ pc = "fetch"
    /\ listing = <<>>
    /\ page_index = 1
    /\ count = 0
    /\ idx = 0
    /\ stop_due_to_2024 = FALSE
    /\ library_books_2025 = <<>>
    /\ title_text = Unbound
    /\ lib_df = <<>>
    /\ session = "held"
    /\ error = "none"
    /\ stop_reason = "none"
    /\ probed = 0
    /\ nav_attempts = 0
    /\ seen_2024 = FALSE
    /\ NormIdle
    /\ MergeIdle

\* variant: the browser is launched outside the "async with" block and an
\* exception leaves it open
RaiseLeaking(e) ==
    /\ pc' = "raised"
    /\ error' = e
    /\ UNCHANGED session

\* an exception leaves sfpl_2025: the "async with" block releases the browser
Raise(e) ==
    /\ pc' = "raised"
    /\ error' = e
    /\ session' = "released"

\* line 191: the container does not become visible within 15000 ms
FetchTimeout ==
    /\ pc = "fetch"
    /\ Raise("container_timeout")
    /\ UNCHANGED <<listing, page_index, count, idx, stop_due_to_2024,
                   library_books_2025, title_text, lib_df, stop_reason,
                   probed, nav_attempts, seen_2024>>
    /\ UNCHANGED <<norm, merge>>

\* variant: the "if count == 0" branch is missing, an empty item list falls
\* through the for loop to the navigation
ModeStructuredOnly(c) == IF c = 0 THEN "after_structured" ELSE "structured"

\* line 196: if count == 0, enumerate by XPath index, else iterate the CSS items
ModeFor(c) == IF c = 0 THEN "indexed" ELSE "structured"

\* lines 189-199, 259-261: the wait returns, the items are counted
FetchPage ==
    /\ pc = "fetch"
    /\ \E page \in Pages(MaxListed - Listed(listing)), c \in 0..SlotsPerPage :
          /\ c \in {0, NumItems(page)}
          /\ listing' = Append(listing, page)
          /\ count' = c
          /\ pc' = ModeFor(c)
          /\ idx' = IF c = 0 THEN 1 ELSE 0
    /\ stop_due_to_2024' = FALSE
    /\ probed' = 0
    /\ UNCHANGED <<page_index, library_books_2025, title_text, lib_df,
                   session, error, stop_reason, nav_attempts, seen_2024>>
    /\ UNCHANGED <<norm, merge>>

\* the page the loop is on
CurrentPage == listing[page_index]

\* variant: every block that is not from 2024 is collected
KeepsUnlessPrior(year) == year # PriorYear

\* lines 234 and 291: if year == 2025
Keeps(year) == year = TargetYear

\* lines 230 and 287: if year == 2024
Stops(year) == year = PriorYear

\* lines 293-306: the record appended by structured extraction
\* (title or "(unknown title)", author or "(unknown author)")
StructuredRecord(item, p, i) ==
    [title |-> IF item.has_title THEN TitleOf(p, i) ELSE UnknownTitle,
     author |-> IF item.has_author THEN AuthorOf(p, i) ELSE UnknownAuthor,
     raw |-> item.text,
     item |-> <<p, i>>]

\* lines 235-245: the record appended by indexed extraction; tt is the value
\* of the local title_text after the try of lines 211-216
\* (title_text if 'title_text' in locals() else "(unknown title)")
IndexedRecord(item, p, i, tt) ==
    [title |-> IF tt # Unbound THEN tt ELSE UnknownTitle,
     author |-> IF item.has_author THEN AuthorOf(p, i) ELSE UnknownAuthor,
     raw |-> item.text,
     item |-> <<p, i>>]

\* lines 211-216 and 266-270: title_text is assigned only if the read succeeds
TitleTextAfter(item, p, i) ==
    IF item.has_title THEN TitleOf(p, i) ELSE title_text

\* lines 262-306: one iteration of "for i in range(count)"
StructuredItem ==
    /\ pc = "structured"
    /\ idx < count
    /\ LET item == ItemAt(CurrentPage, idx + 1)
           year == YearOf(item.text)
       IN /\ title_text' = TitleTextAfter(item, page_index, idx + 1)
          /\ IF Stops(year)
             THEN /\ stop_due_to_2024' = TRUE
                  /\ seen_2024' = TRUE
                  /\ pc' = "after_structured"
                  /\ UNCHANGED <<idx, library_books_2025>>
             ELSE /\ library_books_2025' =
                        IF Keeps(year)
                        THEN Append(library_books_2025,
                                    StructuredRecord(item, page_index, idx + 1))
                        ELSE library_books_2025
                  /\ idx' = idx + 1
                  /\ pc' = IF idx + 1 = count THEN "after_structured"
                                              ELSE "structured"
                  /\ UNCHANGED <<stop_due_to_2024, seen_2024>>
    /\ UNCHANGED <<listing, page_index, count, lib_df, session, error,
                   stop_reason, probed, nav_attempts>>
    /\ UNCHANGED <<norm, merge>>

\* variant: the navigation does not look at stop_due_to_2024
MayAdvanceAlways == TRUE

\* lines 246 and 308: "if stop_due_to_2024: break" guards the navigation
MayAdvance == ~stop_due_to_2024

\* variant: the flag sends the loop back to the item it stopped on
StructuredStopRescans ==
    /\ pc = "after_structured"
    /\ stop_due_to_2024
    /\ pc' = "structured"
    /\ UNCHANGED <<listing, page_index, count, idx, stop_due_to_2024,
                   library_books_2025, title_text, lib_df, session, error,
                   stop_reason, probed, nav_attempts, seen_2024>>
    /\ UNCHANGED <<norm, merge>>

\* lines 308-309: if stop_due_to_2024: break
StructuredStop ==
    /\ pc = "after_structured"
    /\ stop_due_to_2024
    /\ pc' = "done"
    /\ stop_reason' = "sentinel-year-found"
    /\ UNCHANGED <<listing, page_index, count, idx, stop_due_to_2024,
                   library_books_2025, title_text, lib_df, session, error,
                   probed, nav_attempts, seen_2024>>
    /\ UNCHANGED <<norm, merge>>

\* variant: the click of lines 314-315 is not inside a try
StructuredNextUncaught ==
    /\ pc = "after_structured"
    /\ MayAdvance
    /\ nav_attempts' = nav_attempts + 1
    /\ \E navigated \in BOOLEAN :
          /\ navigated => page_index < MaxPages
          /\ IF navigated
             THEN /\ page_index' = page_index + 1
                  /\ pc' = "fetch"
                  /\ UNCHANGED <<error, session>>
             ELSE Raise("navigation_timeout") /\ UNCHANGED page_index
    /\ UNCHANGED <<listing, count, idx, stop_due_to_2024, library_books_2025,
                   title_text, lib_df, stop_reason, probed, seen_2024>>
    /\ UNCHANGED <<norm, merge>>

\* lines 311-319: click the next-page control and wait for the network to
\* settle; either may raise, and the except clause breaks
StructuredNext ==
    /\ pc = "after_structured"
    /\ MayAdvance
    /\ nav_attempts' = nav_attempts + 1
    /\ \E navigated \in BOOLEAN :
          /\ navigated => page_index < MaxPages
          /\ IF navigated
             THEN /\ page_index' = page_index + 1
                  /\ pc' = "fetch"
                  /\ UNCHANGED stop_reason
             ELSE /\ pc' = "done"
                  /\ stop_reason' = "no-further-page"
                  /\ UNCHANGED page_index
    /\ UNCHANGED <<listing, count, idx, stop_due_to_2024, library_books_2025,
                   title_text, lib_df, session, error, probed, seen_2024>>
    /\ UNCHANGED <<norm, merge>>

\* line 207: loc.wait_for(state="visible", timeout=1000) raises for a slot
\* that holds no block; the call is not inside a try
IndexedSlotTimeout ==
    /\ pc = "indexed"
    /\ idx > NumItems(CurrentPage)
    /\ probed' = probed + 1
    /\ Raise("slot_timeout")
    /\ UNCHANGED <<listing, page_index, count, idx, stop_due_to_2024,
                   library_books_2025, title_text, lib_df, stop_reason,
                   nav_attempts, seen_2024>>
    /\ UNCHANGED <<norm, merge>>

\* lines 202-245: one iteration of "for idx in range(1, 51)" on a visible slot
IndexedItem ==
    /\ pc = "indexed"
    /\ idx <= NumItems(CurrentPage)
    /\ probed' = probed + 1
    /\ LET item == ItemAt(CurrentPage, idx)
           year == YearOf(item.text)
           tt == TitleTextAfter(item, page_index, idx)
       IN /\ title_text' = tt
          /\ IF Stops(year)
             THEN /\ stop_due_to_2024' = TRUE
                  /\ seen_2024' = TRUE
                  /\ pc' = "after_indexed"
                  /\ UNCHANGED <<idx, library_books_2025>>
             ELSE /\ library_books_2025' =
                        IF Keeps(year)
                        THEN Append(library_books_2025,
                                    IndexedRecord(item, page_index, idx, tt))
                        ELSE library_books_2025
                  /\ idx' = idx + 1
                  /\ pc' = IF idx = SlotsPerPage THEN "after_indexed"
                                                 ELSE "indexed"
                  /\ UNCHANGED <<stop_due_to_2024, seen_2024>>
    /\ UNCHANGED <<listing, page_index, count, lib_df, session, error,
                   stop_reason, nav_attempts>>
    /\ UNCHANGED <<norm, merge>>

\* lines 246-247: if stop_due_to_2024: break
IndexedStop ==
    /\ pc = "after_indexed"
    /\ stop_due_to_2024
    /\ pc' = "done"
    /\ stop_reason' = "sentinel-year-found"
    /\ UNCHANGED <<listing, page_index, count, idx, stop_due_to_2024,
                   library_books_2025, title_text, lib_df, session, error,
                   probed, nav_attempts, seen_2024>>
    /\ UNCHANGED <<norm, merge>>

\* variant: "page_index += 1" of line 252 is missing
IndexedNextKeepsIndex ==
    /\ pc = "after_indexed"
    /\ MayAdvance
    /\ nav_attempts' = nav_attempts + 1
    /\ \E navigated \in BOOLEAN :
          /\ navigated => page_index < MaxPages
          /\ IF navigated
             THEN /\ pc' = "fetch"
                  /\ UNCHANGED stop_reason
             ELSE /\ pc' = "done"
                  /\ stop_reason' = "no-further-page"
    /\ UNCHANGED <<listing, page_index, count, idx, stop_due_to_2024,
                   library_books_2025, title_text, lib_df, session, error,
                   probed, seen_2024>>
    /\ UNCHANGED <<norm, merge>>

\* lines 248-257: next page when enumerating via XPath
IndexedNext ==
    /\ pc = "after_indexed"
    /\ MayAdvance
    /\ nav_attempts' = nav_attempts + 1
    /\ \E navigated \in BOOLEAN :
          /\ navigated => page_index < MaxPages
          /\ IF navigated
             THEN /\ page_index' = page_index + 1
                  /\ pc' = "fetch"
                  /\ UNCHANGED stop_reason
             ELSE /\ pc' = "done"
                  /\ stop_reason' = "no-further-page"
                  /\ UNCHANGED page_index
    /\ UNCHANGED <<listing, count, idx, stop_due_to_2024, library_books_2025,
                   title_text, lib_df, session, error, probed, seen_2024>>
    /\ UNCHANGED <<norm, merge>>

\* pd.DataFrame(library_books_2025)[["title", "author"]] on a non-empty list
Projection(books) == [k \in 1..Len(books) |->
                        [title |-> books[k].title, author |-> books[k].author]]

\* line 324 on an empty list: the frame has no columns and the selection of
\* ["title", "author"] raises KeyError
ProjectEmpty ==
    /\ pc = "done"
    /\ library_books_2025 = <<>>
    /\ Raise("KeyError")
    /\ UNCHANGED <<listing, page_index, count, idx, stop_due_to_2024,
                   library_books_2025, title_text, lib_df, stop_reason,
                   probed, nav_attempts, seen_2024>>
    /\ UNCHANGED <<norm, merge>>

\* lines 321-325
Project ==
    /\ pc = "done"
    /\ library_books_2025 # <<>>
    /\ lib_df' = Projection(library_books_2025)
    /\ pc' = "projected"
    /\ UNCHANGED <<listing, page_index, count, idx, stop_due_to_2024,
                   library_books_2025, title_text, session, error,
                   stop_reason, probed, nav_attempts, seen_2024>>
    /\ UNCHANGED <<norm, merge>>

\* lines 326-368: the request to the model endpoint and the reads of the two
\* CSV files are not inside a try; an exception of theirs leaves sfpl_2025
PostHarvestRaises ==
    /\ pc = "projected"
    /\ Raise("post_harvest")
    /\ UNCHANGED <<listing, page_index, count, idx, stop_due_to_2024,
                   library_books_2025, title_text, lib_df, stop_reason,
                   probed, nav_attempts, seen_2024>>
    /\ UNCHANGED <<norm, merge>>

\* lines 370-394: both branches return the tuple; leaving the "async with"
\* block of line 159 releases the browser
Return ==
    /\ pc = "projected"
    /\ pc' = "returned"
    /\ session' = "released"
    /\ UNCHANGED <<listing, page_index, count, idx, stop_due_to_2024,
                   library_books_2025, title_text, lib_df, error,
                   stop_reason, probed, nav_attempts, seen_2024>>
    /\ UNCHANGED <<norm, merge>>

Next ==
    \/ FetchTimeout
    \/ FetchPage
    \/ StructuredItem
    \/ StructuredStop
    \/ StructuredNext
    \/ IndexedSlotTimeout
    \/ IndexedItem
    \/ IndexedStop
    \/ IndexedNext
    \/ ProjectEmpty
    \/ Project
    \/ PostHarvestRaises
    \/ Return

Spec == Init /\ [][Next]_vars

\* the coroutine is the only task of the event loop and every await of the
\* harvest returns or times out, so a step that can be taken is taken
FairSpec == Spec /\ WF_vars(Next)

(***************************************************************************)
(* _normalize_title (lines 19-43).  A string is a sequence of characters,  *)
(* each a one-character string; "emdash" stands for the character U+2014.  *)
(***************************************************************************)
MaxNormLen == 3

IsSpace(c) == c \in {" ", "\n"}
IsOpen(c) == c \in {"[", "("}
IsClose(c) == c \in {"]", ")"}
IsPunct(c) == c \in {".", ",", ";", "!", "?", "'", "\""}

\* str.lower on the letters that occur in the inputs
Lower(c) ==
    CASE c = "A" -> "a"
      [] c = "B" -> "b"
      [] c = "C" -> "c"
      [] c = "D" -> "d"
      [] c = "H" -> "h"
      [] c = "I" -> "i"
      [] c = "M" -> "m"
      [] c = "T" -> "t"
      [] OTHER -> c

LowerAll(t) == [k \in 1..Len(t) |-> Lower(t[k])]

\* str.strip
Strip(t) ==
    LET inner == { k \in 1..Len(t) : ~IsSpace(t[k]) }
    IN IF inner = {} THEN <<>>
       ELSE LET first == CHOOSE k \in inner : \A h \in inner : k <= h
                last == CHOOSE k \in inner : \A h \in inner : h <= k
            IN SubSeq(t, first, last)

\* the closer that ends the lazy ".*?" started after the opener at j:
\* the first closer after j, provided no newline lies in between; 0 if none
CloserOf(t, j) ==
    LET closers == { k \in (j + 1)..Len(t) : IsClose(t[k]) }
    IN IF closers = {} THEN 0
       ELSE LET k == CHOOSE c \in closers : \A h \in closers : c <= h
            IN IF \E h \in (j + 1)..(k - 1) : t[h] = "\n" THEN 0 ELSE k

\* line 34: re.sub(r"\s*[\[(].*?[\])]\s*", " ", t): leftmost matches, left to
\* right; a match takes the run of spaces before the opener, the opener, the
\* characters up to the first closer, and the run of spaces after it
RECURSIVE RemoveBracketed(_)
RemoveBracketed(t) ==
    LET opens == { j \in 1..Len(t) : IsOpen(t[j]) /\ CloserOf(t, j) # 0 }
    IN IF opens = {} THEN t
       ELSE LET j == CHOOSE o \in opens : \A h \in opens : o <= h
                k == CloserOf(t, j)
                i == CHOOSE b \in 1..j :
                        /\ \A h \in b..(j - 1) : IsSpace(t[h])
                        /\ (b = 1 \/ ~IsSpace(t[b - 1]))
                e == CHOOSE a \in (k + 1)..(Len(t) + 1) :
                        /\ \A h \in (k + 1)..(a - 1) : IsSpace(t[h])
                        /\ (a = Len(t) + 1 \/ ~IsSpace(t[a]))
            IN SubSeq(t, 1, i - 1) \o <<" ">> \o RemoveBracketed(SubSeq(t, e, Len(t)))

\* sep in t, at position k
OccursAt(t, sep, k) ==
    /\ k + Len(sep) - 1 <= Len(t)
    /\ \A h \in 1..Len(sep) : t[k + h - 1] = sep[h]

\* lines 37-38: if sep in t: t = t.split(sep, 1)[0]
CutAt(t, sep) ==
    LET hits == { k \in 1..Len(t) : OccursAt(t, sep, k) }
    IN IF hits = {} THEN t
       ELSE SubSeq(t, 1, (CHOOSE k \in hits : \A h \in hits : k <= h) - 1)

\* line 36: the separators, in the order they are tried
Separators == << <<":">>, <<" ", "-", " ">>, <<"-">>,
                 <<" ", "emdash", " ">>, <<"emdash">> >>

RECURSIVE CutAll(_, _)
\* lines 36-38: the for loop over the separators, from separator n on
CutAll(t, n) ==
    IF n > Len(Separators) THEN t ELSE CutAll(CutAt(t, Separators[n]), n + 1)

\* line 40: re.sub(r"[\.,;!?'\"]", " ", t)
BlankPunct(t) == [k \in 1..Len(t) |-> IF IsPunct(t[k]) THEN " " ELSE t[k]]

RECURSIVE Collapse(_)
\* line 42: re.sub(r"\s+", " ", t)
Collapse(t) ==
    IF t = <<>> THEN <<>>
    ELSE IF IsSpace(t[1])
         THEN IF Len(t) > 1 /\ IsSpace(t[2]) THEN Collapse(Tail(t))
              ELSE <<" ">> \o Collapse(Tail(t))
         ELSE <<t[1]>> \o Collapse(Tail(t))

\* lines 31-43
NormalizeTitle(s) ==
    Strip(Collapse(BlankPunct(CutAll(RemoveBracketed(LowerAll(Strip(s))), 1))))

\* the argument strings explored: all strings of up to MaxNormLen characters
\* over NormAlphabet, and the title of the documented example
NormAlphabet == {"a", "B", " ", "\n", "(", ")", "[", "]", ":", "-", "emdash", "."}

Hobbit == <<"T", "h", "e", " ", "H", "o", "b", "b", "i", "t", ":", " ",
            "T", "h", "e", "r", "e", " ", "a", "n", "d", " ",
            "B", "a", "c", "k", " ", "A", "g", "a", "i", "n", " ",
            "(", "I", "l", "l", "u", "s", "t", "r", "a", "t", "e", "d", ")">>

NormInputs == UNION { [1..n -> NormAlphabet] : n \in 0..MaxNormLen } \cup {Hobbit}

\* the harvest is not running
HarvestIdle ==
    /\ pc = "idle"
    /\ listing = <<>>
    /\ page_index = 1
    /\ count = 0
    /\ idx = 0
    /\ stop_due_to_2024 = FALSE
    /\ library_books_2025 = <<>>
    /\ title_text = Unbound
    /\ session = "held"
    /\ error = "none"
    /\ stop_reason = "none"
    /\ probed = 0
    /\ nav_attempts = 0
    /\ seen_2024 = FALSE

InitNorm ==
    /\ HarvestIdle
    /\ lib_df = <<>>
    /\ MergeIdle
    /\ norm_pc = "call"
    /\ norm_s \in NormInputs
    /\ norm_t = <<>>

\* one call of _normalize_title(s)
Normalize ==
    /\ norm_pc = "call"
    /\ norm_t' = NormalizeTitle(norm_s)
    /\ norm_pc' = "returned"
    /\ UNCHANGED <<harvest, lib_df, merge, norm_s>>

NextNorm == Normalize

SpecNorm == InitNorm /\ [][NextNorm]_vars

(***************************************************************************)
(* merge_ratings_into_library (lines 70-101).  A table is a sequence of    *)
(* rows; a row is a function from column names to values, so the columns   *)
(* of a table are the DOMAIN of its rows.  The reading-log table also      *)
(* carries its column names, since it may have columns and no rows.        *)
(***************************************************************************)
MaxLibRows == 2
MaxGrRows == 2

\* cell values: a number n, the float NaN, None, and the string "NR"
Num(n) == <<"num", n>>
NaN == <<"NaN">>
None == <<"None">>
NR == <<"NR">>

\* Series.isna
IsNa(v) == v \in {NaN, None}

\* code points of the characters that occur in keys, for the order of strings
Code(c) ==
    CASE c = " " -> 32
      [] c = "(" -> 40
      [] c = ")" -> 41
      [] c = "[" -> 91
      [] c = "]" -> 93
      [] c = "a" -> 97
      [] c = "2" -> 50
      [] c = "b" -> 98
      [] c = "c" -> 99
      [] c = "d" -> 100
      [] c = "e" -> 101
      [] c = "h" -> 104
      [] c = "i" -> 105
      [] c = "k" -> 107
      [] c = "l" -> 108
      [] c = "m" -> 109
      [] c = "n" -> 110
      [] c = "o" -> 111
      [] c = "r" -> 114
      [] c = "s" -> 115
      [] c = "t" -> 116
      [] c = "u" -> 117
      [] c = "w" -> 119

RECURSIVE StrLess(_, _)
\* x < y on Python strings
StrLess(x, y) ==
    IF y = <<>> THEN FALSE
    ELSE IF x = <<>> THEN TRUE
    ELSE IF x[1] # y[1] THEN Code(x[1]) < Code(y[1])
    ELSE StrLess(Tail(x), Tail(y))

RECURSIVE MatchedChars(_, _)
\* difflib.SequenceMatcher(None, a, b): the total size of the matching blocks.
\* find_longest_match takes the longest block a[i:i+k] == b[j:j+k], the one
\* that starts earliest in a, then earliest in b; the pieces to its left and
\* to its right are matched the same way
MatchedChars(a, b) ==
    LET blocks == { blk \in (1..Len(a)) \X (1..Len(b)) \X (1..Len(a)) :
                      /\ blk[1] + blk[3] - 1 <= Len(a)
                      /\ blk[2] + blk[3] - 1 <= Len(b)
                      /\ \A h \in 0..(blk[3] - 1) : a[blk[1] + h] = b[blk[2] + h] }
    IN IF blocks = {} THEN 0
       ELSE LET best == CHOOSE x \in blocks : \A y \in blocks :
                           \/ x[3] > y[3]
                           \/ (x[3] = y[3] /\ x[1] < y[1])
                           \/ (x[3] = y[3] /\ x[1] = y[1] /\ x[2] <= y[2])
                i == best[1]
                j == best[2]
                k == best[3]
            IN k + MatchedChars(SubSeq(a, 1, i - 1), SubSeq(b, 1, j - 1))
                 + MatchedChars(SubSeq(a, i + k, Len(a)), SubSeq(b, j + k, Len(b)))

\* s.ratio() >= 0.9 with seq1 = x and seq2 = word: 2.0 * M / T >= 0.9
CloseEnough(x, word) ==
    IF Len(x) + Len(word) = 0 THEN TRUE
    ELSE 20 * MatchedChars(x, word) >= 9 * (Len(x) + Len(word))

\* (ratio, x) < (ratio, y) for the tuples ranked by heapq.nlargest
RankedBelow(x, y, word) ==
    LET rx == MatchedChars(x, word) * (Len(y) + Len(word))
        ry == MatchedChars(y, word) * (Len(x) + Len(word))
    IN rx < ry \/ (rx = ry /\ StrLess(x, y))

\* line 86: difflib.get_close_matches(k, gr_keys, n=1, cutoff=0.9);
\* <<>> stands for the empty list, <<x>> for the list [x]
GetCloseMatches(word, keys) ==
    LET close == { x \in keys : CloseEnough(x, word) }
    IN IF close = {} THEN <<>>
       ELSE << CHOOSE x \in close : \A y \in close : y = x \/ RankedBelow(y, x, word) >>

\* line 75: gr['__key'] = gr['Title'].map(_normalize_title)
GrKey(gr, n) == NormalizeTitle(gr.rows[n].Title)

\* line 82: the distinct keys of the reading log
GrKeys(gr) == { GrKey(gr, n) : n \in 1..Len(gr.rows) }

\* line 77: rating_map = gr.set_index('__key')['My Rating'] has a unique index
UniqueIndex(gr) == Cardinality(GrKeys(gr)) = Len(gr.rows)

\* rating_map.get(k), and the value mapped to k by line 78, on a unique index
RatingMapGet(gr, k) ==
    IF k \in GrKeys(gr)
    THEN gr.rows[CHOOSE n \in 1..Len(gr.rows) : GrKey(gr, n) = k]["My Rating"]
    ELSE NaN

\* lines 83-87: _fuzzy_lookup(k)
FuzzyLookup(gr, k) ==
    IF k = <<>> THEN None
    ELSE LET match == GetCloseMatches(k, GrKeys(gr))
         IN IF match # <<>> THEN RatingMapGet(gr, match[1]) ELSE None

\* line 88: na_mask, the rows whose exact lookup gave no rating
NaMask(lib, gr) ==
    { n \in 1..Len(lib) : IsNa(RatingMapGet(gr, NormalizeTitle(lib[n].title))) }

\* lines 78-93: the rating of row n: exact lookup, fuzzy fallback, fillna('NR')
RatingOf(lib, gr, n) ==
    LET k == NormalizeTitle(lib[n].title)
        exact == RatingMapGet(gr, k)
        filled == IF IsNa(exact) THEN FuzzyLookup(gr, k) ELSE exact
    IN IF IsNa(filled) THEN NR ELSE filled

\* variant: the ratings are joined with an inner merge, which keeps only the
\* rows that found a rating
RatedRowsMatchedOnly(lib, gr) ==
    SelectSeq([n \in 1..Len(lib) |->
                  [c \in {"title", "author", "rating"} |->
                      IF c = "rating" THEN RatingOf(lib, gr, n) ELSE lib[n][c]]],
              LAMBDA row : row["rating"] # NR)

\* lines 76-96: lib_df with the rating column, the helper column dropped
RatedRows(lib, gr) ==
    [n \in 1..Len(lib) |->
        [c \in {"title", "author", "rating"} |->
            IF c = "rating" THEN RatingOf(lib, gr, n) ELSE lib[n][c]]]

\* lib_df after line 76, when line 78 has raised: the helper column is there
KeyedRows(lib) ==
    [n \in 1..Len(lib) |->
        [c \in {"title", "author", "__key"} |->
            IF c = "__key" THEN NormalizeTitle(lib[n].title) ELSE lib[n][c]]]

\* line 94: matched = (lib_df['rating'] != 'NR').sum()
Matched(rows) == Cardinality({ n \in 1..Len(rows) : rows[n]["rating"] # NR })

\* line 73: not goodreads_books_this_year.empty and 'Title' in its columns
MergeAttempted(gr) ==
    /\ gr.rows # <<>>
    /\ gr.columns # {}
    /\ "Title" \in gr.columns

\* the titles of the harvested table and of the reading log
TDune == <<"D", "u", "n", "e">>
TDuneDot == <<"D", "u", "n", "e", ".">>
THamlet == <<"H", "a", "m", "l", "e", "t">>
THamlets == <<"H", "a", "m", "l", "e", "t", "s">>
TPlaceholder == <<"(", "u", "n", "k", "n", "o", "w", "n", " ",
                  "t", "i", "t", "l", "e", ")">>
TBracketed == <<"[", "a", "]">>

\* titles for single cases: a pair of keys of similarity exactly 0.9
\* ('dubliners', 'dubliners 2': 2 * 9 / 20), the pair of the documented
\* example (similarity 36 / 44), and a title that begins with a separator
TDubliners == <<"D", "u", "b", "l", "i", "n", "e", "r", "s">>
TDublinersTwo == <<"D", "u", "b", "l", "i", "n", "e", "r", "s", " ", "2">>
TMartian == <<"T", "h", "e", " ", "M", "a", "r", "t", "i", "a", "n", " ",
              "C", "h", "r", "o", "n", "i", "c", "l", "e", "s">>
TMartianThe == <<"M", "a", "r", "t", "i", "a", "n", " ",
                 "C", "h", "r", "o", "n", "i", "c", "l", "e", "s", ",", " ",
                 "T", "h", "e">>
TColonDune == <<":", "D", "u", "n", "e">>

LibTitles == {TDune, THamlet, TPlaceholder}
EdgeLibTitles == {TDubliners, TMartian, TColonDune}
EdgeGrTitles == {TDublinersTwo, TMartianThe}
GrTitles == {TDune, TDuneDot, THamlets, TBracketed}
GrRatings == {NaN, Num(3), Num(5)}

\* the harvested tables: one to MaxLibRows rows of (title, author), and
\* one-row tables of the titles for single cases
LibTables ==
    UNION { { [n \in 1..len |-> [title |-> ts[n], author |-> <<"author", n>>]] :
                ts \in [1..len -> LibTitles] } : len \in 1..MaxLibRows }
        \cup { << [title |-> t, author |-> <<"author", 1>>] >> : t \in EdgeLibTitles }

GrRows == { [c \in {"Title", "My Rating"} |-> IF c = "Title" THEN t ELSE r] :
               t \in GrTitles, r \in GrRatings }

\* the reading-log tables: pd.DataFrame() (no column, no row); tables with
\* both columns and up to MaxGrRows rows; one table without the rating
\* column and one without the title column; one-row tables of the titles
\* for single cases
GrTables ==
    { [columns |-> {}, rows |-> <<>>] }
        \cup { [columns |-> {"Title", "My Rating"}, rows |-> rows] :
                   rows \in UNION { [1..len -> GrRows] : len \in 0..MaxGrRows } }
        \cup { [columns |-> {"Title"},
                rows |-> << [c \in {"Title", "My Rating"} |->
                                IF c = "Title" THEN TDune ELSE NaN] >>],
               [columns |-> {"My Rating"},
                rows |-> << [c \in {"Title", "My Rating"} |->
                                IF c = "Title" THEN TDune ELSE Num(3)] >>] }
        \cup { [columns |-> {"Title", "My Rating"},
                rows |-> << [c \in {"Title", "My Rating"} |->
                                IF c = "Title" THEN t ELSE Num(5)] >>] :
                   t \in EdgeGrTitles }

InitMerge ==
    /\ HarvestIdle
    /\ NormIdle
    /\ merge_pc = "call"
    /\ lib_df \in LibTables
    /\ goodreads_books_this_year \in GrTables
    /\ lib_before = lib_df
    /\ merge_path = "none"
    /\ matched = 0
    /\ fuzzy_calls = {}

\* lines 97-98, 101: the merge is skipped and lib_df is returned as it came
MergeSkipped ==
    /\ merge_pc = "call"
    /\ ~MergeAttempted(goodreads_books_this_year)
    /\ merge_pc' = "returned"
    /\ merge_path' = "skipped"
    /\ UNCHANGED <<harvest, norm, lib_df, goodreads_books_this_year,
                   lib_before, matched, fuzzy_calls>>

\* lines 74-78, 99-101: line 74 raises KeyError when the reading log has no
\* 'My Rating' column; line 78 raises InvalidIndexError when two rows of the
\* reading log have the same key (Series.map needs a unique index), after
\* line 76 has added '__key' to lib_df.  The except of line 99 prints and
\* lib_df is returned.
MergeFailed ==
    /\ merge_pc = "call"
    /\ MergeAttempted(goodreads_books_this_year)
    /\ \/ /\ "My Rating" \notin goodreads_books_this_year.columns
          /\ UNCHANGED lib_df
       \/ /\ "My Rating" \in goodreads_books_this_year.columns
          /\ ~UniqueIndex(goodreads_books_this_year)
          /\ lib_df' = KeyedRows(lib_df)
    /\ merge_pc' = "returned"
    /\ merge_path' = "failed"
    /\ UNCHANGED <<harvest, norm, goodreads_books_this_year, lib_before,
                   matched, fuzzy_calls>>

\* lines 74-96, 101: the merge runs to its end
MergeDone ==
    /\ merge_pc = "call"
    /\ MergeAttempted(goodreads_books_this_year)
    /\ "My Rating" \in goodreads_books_this_year.columns
    /\ UniqueIndex(goodreads_books_this_year)
    /\ lib_df' = RatedRows(lib_df, goodreads_books_this_year)
    /\ matched' = Matched(lib_df')
    /\ fuzzy_calls' = NaMask(lib_df, goodreads_books_this_year)
    /\ merge_pc' = "returned"
    /\ merge_path' = "merged"
    /\ UNCHANGED <<harvest, norm, goodreads_books_this_year, lib_before>>

NextMerge == MergeSkipped \/ MergeFailed \/ MergeDone

SpecMerge == InitMerge /\ [][NextMerge]_vars

(***************************************************************************)
(* Vocabulary of the properties                                            *)
(***************************************************************************)
InLoop == pc \in {"fetch", "structured", "indexed",
                  "after_structured", "after_indexed"}

\* positions <<page, item>> of the blocks of the pages revealed so far
Positions == UNION { { <<p, i>> : i \in 1..NumItems(listing[p]) } :
                        p \in 1..Len(listing) }

Before(a, b) == a[1] < b[1] \/ (a[1] = b[1] /\ a[2] < b[2])

TextAt(pos) == ItemAt(listing[pos[1]], pos[2]).text

Classified(y) == { pos \in Positions : YearOf(TextAt(pos)) = y }

\* the first block classified 2024, when there is one
FirstPrior == CHOOSE k \in Classified(PriorYear) :
                 \A o \in Classified(PriorYear) : o = k \/ Before(k, o)

BookItems == { library_books_2025[n].item : n \in 1..Len(library_books_2025) }

InListingOrder == \A m, n \in 1..Len(library_books_2025) :
                     m < n => Before(library_books_2025[m].item,
                                     library_books_2025[n].item)

\* the year of the date that follows the phrase: the first year after it
CheckoutYear(text) ==
    IF ~HasPhrase(text) THEN 0
    ELSE LET p == PhraseIndex(text)
             years == { j \in p..Len(text) : text[j] \in {"Y25", "Y24"} }
         IN IF years = {} THEN 0
            ELSE LET first == CHOOSE j \in years : \A h \in years : j <= h
                 IN IF text[first] = "Y25" THEN TargetYear ELSE PriorYear

(***************************************************************************)
(* C1 - stop invariant: when the loop has ended and block k is the first   *)
(* one classified 2024, the collected list holds exactly the blocks before *)
(* k that are classified 2025, in listing order, and none from k onward.   *)
(***************************************************************************)
C1_StopInvariant ==
    (~InLoop /\ Classified(PriorYear) # {}) =>
        /\ BookItems = { pos \in Classified(TargetYear) : Before(pos, FirstPrior) }
        /\ InListingOrder

\* the loop stopped on a 2024 block of page 2 that is not the last block of
\* its page, with a skipped block and a collected block before it
C1_Witness ==
    /\ pc = "done"
    /\ stop_reason = "sentinel-year-found"
    /\ Classified(PriorYear) # {}
    /\ FirstPrior[1] = 2
    /\ FirstPrior[2] < NumItems(listing[2])
    /\ library_books_2025 # <<>>
    /\ \E pos \in Classified(0) : Before(pos, FirstPrior)

(***************************************************************************)
(* C2 - every collected record comes from a block whose checkout date (the *)
(* date following the phrase) is in 2025, whatever other years the window  *)
(* holds.                                                                  *)
(***************************************************************************)
C2_OnlyTargetYearCheckouts ==
    \A n \in 1..Len(library_books_2025) :
        CheckoutYear(library_books_2025[n].raw) = TargetYear

(***************************************************************************)
(* C3 - stop on sentinel: once a 2024 block has been classified, no other  *)
(* block is processed, no slot is probed, no navigation is attempted, no   *)
(* page is fetched, and the collected list stays as it is.                 *)
(***************************************************************************)
C3_StopOnSentinel ==
    [][seen_2024 =>
          /\ library_books_2025' = library_books_2025
          /\ idx' = idx
          /\ probed' = probed
          /\ nav_attempts' = nav_attempts
          /\ page_index' = page_index
          /\ listing' = listing
          /\ pc' \notin {"fetch", "structured", "indexed"}]_vars

\* an indexed page stopped on a 2024 block with blocks left and books kept
C3_Witness ==
    /\ seen_2024
    /\ pc = "done"
    /\ count = 0
    /\ idx < NumItems(CurrentPage)
    /\ library_books_2025 # <<>>

(***************************************************************************)
(* C4 - end of listing: when no 2024 block was seen on the page and the    *)
(* navigation to the next page fails, the loop exits without raising and   *)
(* the list holds every block classified 2025 on the pages visited.        *)
(***************************************************************************)
HoldsAllTarget == BookItems = Classified(TargetYear) /\ InListingOrder

C4_EndOfListing ==
    [][(pc \in {"after_structured", "after_indexed"} /\ ~stop_due_to_2024
          /\ page_index' = page_index)
       => /\ pc' = "done"
          /\ error' = "none"
          /\ stop_reason' = "no-further-page"
          /\ library_books_2025' = library_books_2025
          /\ HoldsAllTarget']_vars

\* the listing ended on its second page with books from both pages
C4_Witness ==
    /\ pc = "done"
    /\ stop_reason = "no-further-page"
    /\ page_index = 2
    /\ \E m, n \in 1..Len(library_books_2025) :
          library_books_2025[m].item[1] = 1 /\ library_books_2025[n].item[1] = 2

(***************************************************************************)
(* C5 - no harvest outcome aborts the run: whatever the loop collected,    *)
(* an empty list included, the run goes on past the projection.            *)
(***************************************************************************)
C5_HarvestOutcomeNeverAborts == stop_reason # "none" => pc # "raised"

(***************************************************************************)
(* C6 - page-fetch degradation: a container that does not become available *)
(* within the wait timeout does not make the controller fail.              *)
(***************************************************************************)
C6_FetchTimeoutDegrades == error # "container_timeout"

(***************************************************************************)
(* C7 - graceful degradation: a page whose structured extraction yields    *)
(* zero items is not left (by navigation or by loop exit) before the       *)
(* indexed fallback was attempted on it.                                   *)
(***************************************************************************)
C7_FallbackBeforeLeaving ==
    [][(Len(listing) = page_index /\ count = 0
          /\ (page_index' # page_index \/ pc' \notin {"indexed", "after_indexed"}))
       => probed' >= 1]_vars

\* a page with zero structured items was probed in full and then left
C7_Witness ==
    /\ pc = "fetch"
    /\ page_index = 2
    /\ count = 0
    /\ probed = SlotsPerPage

(***************************************************************************)
(* C8 - extraction exhausted: on a page where neither extraction produces  *)
(* an item the harvest stops with a partial result.                        *)
(***************************************************************************)
C8_ExhaustedStopsWithPartial ==
    (Len(listing) = page_index /\ count = 0 /\ NumItems(CurrentPage) = 0
       /\ pc # "indexed")
    => (pc \in {"done", "projected"} /\ stop_reason = "extraction-exhausted")

(***************************************************************************)
(* C9 - field-extraction failures: a collected block without a title       *)
(* (author) element carries exactly the placeholder title (author).        *)
(***************************************************************************)
C9_PlaceholderOnFailure ==
    \A n \in 1..Len(library_books_2025) :
        LET b == library_books_2025[n]
            item == ItemAt(listing[b.item[1]], b.item[2])
        IN /\ ~item.has_title => b.title = UnknownTitle
           /\ ~item.has_author => b.author = UnknownAuthor

(***************************************************************************)
(* C10 - slot tolerance: a slot that does not become visible is skipped;   *)
(* no error of a slot wait leaves the harvest.                             *)
(***************************************************************************)
C10_SlotMissNotPropagated == error # "slot_timeout"

(***************************************************************************)
(* C11 - session release: when sfpl_2025 has returned or raised, on any    *)
(* exit path, the browser opened for the run has been released.            *)
(***************************************************************************)
C11_SessionReleased == pc \in {"returned", "raised"} => session = "released"

\* the run stopped on a 2024 item, returned, and the browser is released
C11_Witness ==
    /\ pc = "returned"
    /\ stop_reason = "sentinel-year-found"
    /\ session = "released"

(***************************************************************************)
(* C12 - harvest termination: on a finite listing the harvest loop         *)
(* eventually reaches a terminal state.                                    *)
(***************************************************************************)
C12_HarvestTerminates == <>(~InLoop)

\* the loop ended after reading the last page of the listing in indexed mode
C12_Witness ==
    /\ ~InLoop
    /\ page_index = MaxPages
    /\ Len(listing) = MaxPages
    /\ probed = SlotsPerPage
    /\ nav_attempts = MaxPages

(***************************************************************************)
(* C13 - normalization idempotence: normalizing a normalized title gives   *)
(* the same key.                                                           *)
(***************************************************************************)
C13_Idempotent == norm_pc = "returned" => NormalizeTitle(norm_t) = norm_t

(***************************************************************************)
(* C14 - shape of the key: lowercase, no complete bracketed span, no       *)
(* separator, no punctuation, no leading, trailing or repeated whitespace; *)
(* the documented example yields "the hobbit".                             *)
(***************************************************************************)
TheHobbit == <<"t", "h", "e", " ", "h", "o", "b", "b", "i", "t">>

C14_KeyShape ==
    norm_pc = "returned" =>
        /\ LowerAll(norm_t) = norm_t
        /\ ~\E j, k \in 1..Len(norm_t) : j < k /\ IsOpen(norm_t[j]) /\ IsClose(norm_t[k])
        /\ \A k \in 1..Len(norm_t) :
              /\ norm_t[k] \notin {":", "-", "emdash"}
              /\ ~IsPunct(norm_t[k])
              /\ norm_t[k] # "\n"
              /\ IsSpace(norm_t[k]) => (k > 1 /\ k < Len(norm_t) /\ ~IsSpace(norm_t[k + 1]))
        /\ norm_s = Hobbit => norm_t = TheHobbit

(***************************************************************************)
(* Vocabulary of the reconciliation properties                             *)
(***************************************************************************)
Returned == merge_pc = "returned"

\* the key of the n-th harvested item
LibKey(n) == NormalizeTitle(lib_before[n].title)

\* the rows of the reading log whose key is k
RowsWithKey(k) ==
    { m \in 1..Len(goodreads_books_this_year.rows) :
          GrKey(goodreads_books_this_year, m) = k }

\* match kinds of the n-th harvested item
ExactMatch(n) == RowsWithKey(LibKey(n)) # {}

FuzzyMatch(n) ==
    /\ ~ExactMatch(n)
    /\ LibKey(n) # <<>>
    /\ \E x \in GrKeys(goodreads_books_this_year) : CloseEnough(x, LibKey(n))

NoMatch(n) == ~ExactMatch(n) /\ ~FuzzyMatch(n)

\* a stored rating as the output shows it
Shown(r) == IF IsNa(r) THEN NR ELSE r

HasColumn(row, c) == c \in DOMAIN row

(***************************************************************************)
(* C15 - last write wins: when two or more rows of the reading log have    *)
(* the same key, the merge completes and a harvested item with that key    *)
(* gets the rating of the last such row.                                   *)
(***************************************************************************)
C15_LastWriteWins ==
    (Returned /\ MergeAttempted(goodreads_books_this_year)
              /\ "My Rating" \in goodreads_books_this_year.columns) =>
        \A n \in 1..Len(lib_before) :
            Cardinality(RowsWithKey(LibKey(n))) >= 2 =>
                LET last == CHOOSE m \in RowsWithKey(LibKey(n)) :
                                \A o \in RowsWithKey(LibKey(n)) : o <= m
                IN /\ merge_path = "merged"
                   /\ HasColumn(lib_df[n], "rating")
                   /\ lib_df[n]["rating"] =
                          Shown(goodreads_books_this_year.rows[last]["My Rating"])

(***************************************************************************)
(* C16 - exact-match priority: on a completed merge, an item whose key is  *)
(* a key of the reading log gets the rating stored under that key, and the *)
(* fuzzy lookup is not run for it, whatever the stored rating is.          *)
(***************************************************************************)
C16_ExactPriority ==
    (Returned /\ merge_path = "merged") =>
        \A n \in 1..Len(lib_before) :
            ExactMatch(n) =>
                /\ n \notin fuzzy_calls
                /\ lib_df[n]["rating"] =
                       Shown(RatingMapGet(goodreads_books_this_year, LibKey(n)))

(***************************************************************************)
(* C17 - NR consistency: on a completed merge, a row has rating 'NR' if    *)
(* and only if its item matched no key, neither exactly nor fuzzily.       *)
(***************************************************************************)
C17_NRIffNoMatch ==
    (Returned /\ merge_path = "merged") =>
        \A n \in 1..Len(lib_df) : lib_df[n]["rating"] = NR <=> NoMatch(n)

(***************************************************************************)
(* C18 - empty reading log: every item of the returned table has rating    *)
(* 'NR' and the diagnostic of line 95 reports 0 matches.                   *)
(***************************************************************************)
C18_EmptyLogAllNR ==
    (Returned /\ goodreads_books_this_year.rows = <<>>) =>
        /\ \A n \in 1..Len(lib_df) :
               HasColumn(lib_df[n], "rating") /\ lib_df[n]["rating"] = NR
        /\ merge_path = "merged"
        /\ matched = 0

(***************************************************************************)
(* C19 - the harvested items are preserved: on every return path the       *)
(* returned table has one row per harvested item, in the same order, with  *)
(* the same title and author.                                              *)
(***************************************************************************)
C19_RowsPreserved ==
    Returned =>
        /\ Len(lib_df) = Len(lib_before)
        /\ \A n \in 1..Len(lib_before) :
               /\ lib_df[n]["title"] = lib_before[n].title
               /\ lib_df[n]["author"] = lib_before[n].author

\* a completed merge of two or more items, one rated and one without match
C19_Witness ==
    /\ Returned
    /\ merge_path = "merged"
    /\ Len(lib_before) >= 2
    /\ Len(lib_df) = Len(lib_before)
    /\ \E n \in 1..Len(lib_df) : lib_df[n]["rating"] # NR
    /\ \E n \in 1..Len(lib_df) : lib_df[n]["rating"] = NR /\ NoMatch(n)

(***************************************************************************)
(* C20 - output schema: on every return path the returned table has        *)
(* exactly the columns title, author and rating, and every rating is a     *)
(* number or 'NR'.                                                         *)
(***************************************************************************)
C20_OutputSchema ==
    Returned =>
        \A n \in 1..Len(lib_df) :
            /\ DOMAIN lib_df[n] = {"title", "author", "rating"}
            /\ \/ lib_df[n]["rating"] = NR
               \/ lib_df[n]["rating"] \in { Num(v) : v \in 0..5 }

(***************************************************************************)
(* C21 - conservative fuzzy acceptance: on a completed merge, an item      *)
(* without exact match gets a rating from the fuzzy fallback only if its   *)
(* most similar reading-log key has a similarity strictly above 0.9, and   *)
(* the rating is that key's; with no key above 0.9 the item gets 'NR'.     *)
(***************************************************************************)
\* the similarity 2 * M / T of x and the key, strictly above 9 / 10
StrictlyAbove(x, word) ==
    20 * MatchedChars(x, word) > 9 * (Len(x) + Len(word))

\* the reading-log keys whose similarity to the key of item n is above 0.9
KeysAbove(n) ==
    { x \in GrKeys(goodreads_books_this_year) : StrictlyAbove(x, LibKey(n)) }

\* the most similar of a set of candidates
MostSimilar(cands, word) ==
    CHOOSE x \in cands : \A y \in cands : y = x \/ RankedBelow(y, x, word)

C21_ConservativeFuzzy ==
    (Returned /\ merge_path = "merged") =>
        \A n \in 1..Len(lib_before) :
            ~ExactMatch(n) =>
                /\ lib_df[n]["rating"] # NR =>
                       /\ KeysAbove(n) # {}
                       /\ lib_df[n]["rating"] =
                              Shown(RatingMapGet(goodreads_books_this_year,
                                                 MostSimilar(KeysAbove(n), LibKey(n))))
                /\ KeysAbove(n) = {} => lib_df[n]["rating"] = NR

(***************************************************************************)
(* C22 - match-rate diagnostic: on a completed merge the pair printed by   *)
(* line 95 has total = number of harvested items and matched = number of   *)
(* items resolved by an exact or a fuzzy match.                            *)
(***************************************************************************)
\* the items that matched a key of the reading log, exactly or fuzzily
Resolved == { n \in 1..Len(lib_before) : ExactMatch(n) \/ FuzzyMatch(n) }

C22_MatchRate ==
    (Returned /\ merge_path = "merged") =>
        /\ Len(lib_df) = Len(lib_before)
        /\ matched = Cardinality(Resolved)
        /\ matched + Cardinality({ n \in 1..Len(lib_before) : NoMatch(n) })
               = Len(lib_df)

(***************************************************************************)
(* C23 - unknown-year items are inert: a block whose text lacks the phrase *)
(* or whose 64-character window holds neither 2025 nor 2024 is not         *)
(* appended and is not a stop signal; the loop goes on to the next block   *)
(* and the collected list is unchanged.                                    *)
(***************************************************************************)
\* tok lies in the 64 characters of text that start at the phrase
InWindow(text, tok) ==
    LET p == PhraseIndex(text)
    IN \E j \in p..Len(text) :
          /\ text[j] = tok
          /\ Offset(text, j) + Width(tok) <= Offset(text, p) + SnippetLen

UnknownYear(text) ==
    \/ ~HasPhrase(text)
    \/ ~InWindow(text, "Y25") /\ ~InWindow(text, "Y24")

\* the block that the next iteration of the item loop reads, if there is one
AtBlock ==
    \/ pc = "structured" /\ idx < count
    \/ pc = "indexed" /\ idx <= NumItems(CurrentPage)

BlockRead ==
    IF pc = "structured" THEN ItemAt(CurrentPage, idx + 1)
                         ELSE ItemAt(CurrentPage, idx)

C23_UnknownYearInert ==
    [][(AtBlock /\ UnknownYear(BlockRead.text)) =>
          /\ library_books_2025' = library_books_2025
          /\ stop_due_to_2024' = stop_due_to_2024
          /\ seen_2024' = seen_2024
          /\ idx' = idx + 1
          /\ page_index' = page_index
          /\ error' = error
          /\ pc' \in {"structured", "after_structured",
                      "indexed", "after_indexed"}]_vars

(***************************************************************************)
(* C24 - one extraction mode per page, no double counting: a page is read  *)
(* either by structured extraction or by indexed extraction, never by      *)
(* both; a page is fetched once and its blocks are read in one pass;       *)
(* page_index starts at 1 and grows by exactly 1 with each successful      *)
(* navigation; no block gives more than one record.                        *)
(***************************************************************************)
StructuredModes == {"structured", "after_structured"}
IndexedModes == {"indexed", "after_indexed"}

\* every record comes from a block of a visited page, and no two records
\* come from the same block
NoDoubleCounting ==
    \A m \in 1..Len(library_books_2025) :
        LET at == library_books_2025[m].item
        IN /\ at[1] \in 1..Len(listing)
           /\ at[2] \in 1..NumItems(listing[at[1]])
           /\ \A n \in 1..Len(library_books_2025) :
                  library_books_2025[n].item = at => m = n

C24_OnePassPerPage ==
    [][/\ pc \in StructuredModes => pc' \notin IndexedModes
       /\ pc \in IndexedModes => pc' \notin StructuredModes
       /\ pc = "fetch" /\ pc' \in StructuredModes \cup IndexedModes =>
             /\ Len(listing') = page_index'
             /\ page_index' = page_index
       /\ (pc \in {"after_structured", "after_indexed"} /\ pc' = "fetch") <=>
             page_index' = page_index + 1
       /\ page_index' \in {page_index, page_index + 1}
       /\ page_index' <= nav_attempts' + 1
       /\ listing' # listing => pc = "fetch" /\ Len(listing') = Len(listing) + 1
       /\ (pc \in StructuredModes \cup IndexedModes
              /\ pc' \in StructuredModes \cup IndexedModes) =>
             idx' \in {idx, idx + 1}
       /\ NoDoubleCounting']_vars

\* two pages were visited, the second one by indexed extraction over its 50
\* slots, and each page gave one record
C24_Witness ==
    /\ pc = "done"
    /\ page_index = 2
    /\ Len(listing) = 2
    /\ count = 0
    /\ probed = SlotsPerPage
    /\ nav_attempts = 2
    /\ Len(library_books_2025) = 2
    /\ library_books_2025[1].item = <<1, 1>>
    /\ library_books_2025[2].item = <<2, 1>>

(***************************************************************************)
(* C25 - empty keys: on a completed merge, an item whose key is the empty  *)
(* string (the placeholder title, a title that begins with a separator)    *)
(* is matched to no row of the reading log and has rating 'NR', whatever   *)
(* the reading log holds.                                                  *)
(***************************************************************************)
C25_EmptyKeyNeverMatched ==
    (Returned /\ merge_path = "merged") =>
        \A n \in 1..Len(lib_before) :
            LibKey(n) = <<>> => lib_df[n]["rating"] = NR

====
